---------------------------- MODULE Spec2Model ----------------------------
(***************************************************************************)
(* The labeled-example commit pipeline of                                  *)
(* backend/data_import/pipeline/labeled_examples.py.                       *)
(*                                                                         *)
(* An invocation p holds a batch of Records (records[p]).  Its Records are *)
(* cleaned one by one (Record.clean) and the batch is then committed by    *)
(* create(project, user) of the kind variant kind[p].  Every store         *)
(* operation of create() (a bulk_create or a query) is one step, so that   *)
(* two invocations interleave at the store boundary and a store operation  *)
(* can fail between two others.  The store is a set of tables; a table is  *)
(* the sequence of its rows in insertion order and a row's pk is its       *)
(* position.  Span offsets and text contents enter no property below and   *)
(* are left out of the rows.                                               *)
(***************************************************************************)
EXTENDS Integers, Sequences, FiniteSets, TLC

(***************************************************************************)
(* Bounds of the model.                                                    *)
(***************************************************************************)
\* Records of a batch and labels of a batch (all Records together) when one
\* invocation runs alone.
MaxRecords == 2
MaxLabels == 3
\* The same for each of two concurrent invocations.
ConcRecords == 1
ConcLabels == 1

Procs == {1, 2}
Projects == {"P1", "P2"}
Names == {"a", "b"}
RelationNames == {"r"}
RelationSpanNames == {"a"}
Ids == {0, 1}
Kinds == {"Category", "Span", "Text", "SpanAndCategory", "Relation"}

VARIABLES
    store,       \* table name -> sequence of rows
    kind,        \* p -> the variant of LabeledExamples
    project,     \* p -> the project of create(project, user)
    records,     \* p -> self.records
    warnings,    \* p -> the FileParseException values returned by Record.clean
    ci,          \* p -> index of the next Record to clean
    pc,          \* p -> position of the invocation
    err,         \* p -> the exception create() raised, "" if none
    examples,    \* p -> local `examples` of create()
    groups,      \* p -> the groups create_label_type still has to insert
    mapping,     \* p -> the name -> LabelType dicts built by create_mapping
    pending,     \* p -> extracted durable labels not yet inserted
    uuids,       \* p -> local `uuids` of RelationExamples.create_label
    uuid_to_span, \* p -> local `uuid_to_span` of RelationExamples.create_label
    id_to_span   \* p -> local `id_to_span` of RelationExamples.create_label

vars == <<store, kind, project, records, warnings, ci, pc, err, examples,
          groups, mapping, pending, uuids, uuid_to_span, id_to_span>>

(***************************************************************************)
(* Generic helpers.                                                        *)
(***************************************************************************)
Range(s) == {s[i] : i \in DOMAIN s}

SeqsUpTo(S, n) == UNION {[1..k -> S] : k \in 0..n}

RECURSIVE Flatten(_)
Flatten(ss) == IF ss = <<>> THEN <<>> ELSE Head(ss) \o Flatten(Tail(ss))

\* The subsequence of s at the positions K.
RECURSIVE Pick(_, _, _)
Pick(s, K, i) ==
    IF i > Len(s) THEN <<>>
    ELSE (IF i \in K THEN <<s[i]>> ELSE <<>>) \o Pick(s, K, i + 1)

EmptyDict == [k \in {} |-> 0]

\* {k: v for k, v in zip(keys, vals)}: a later pair replaces an earlier one of
\* the same key.
RECURSIVE Dict(_, _)
Dict(keys, vals) ==
    IF keys = <<>> THEN EmptyDict
    ELSE LET n == Len(keys)
             d == Dict(SubSeq(keys, 1, n - 1), SubSeq(vals, 1, n - 1))
         IN [k \in (DOMAIN d) \cup {keys[n]} |-> IF k = keys[n] THEN vals[n] ELSE d[k]]

(***************************************************************************)
(* Transient labels (labels.py).  One record shape for the four variants;  *)
(* a field a variant does not have keeps its default.                      *)
(***************************************************************************)
Lab(cls, id, name, from_id, to_id) ==
    [cls |-> cls, uuid |-> 0, id |-> id, name |-> name,
     from_id |-> from_id, to_id |-> to_id]

CategoryLabels == {Lab("CategoryLabel", -1, n, -1, -1) : n \in Names}
SpanLabels(ids, names) == {Lab("SpanLabel", i, n, -1, -1) : i \in ids, n \in names}
TextLabels == {Lab("TextLabel", -1, "", -1, -1)}
RelationLabels ==
    {Lab("RelationLabel", -1, n, f, t) : n \in RelationNames, f \in Ids, t \in Ids}

\* The labels the parser of each kind of dataset builds.  Spans carry an id
\* only where relations refer to them; there the spans are all of one type,
\* the types of spans being told apart in the span kinds.
LabelAlphabet(k) ==
    CASE k = "Category" -> CategoryLabels
      [] k = "Span" -> SpanLabels({-1}, Names)
      [] k = "Text" -> TextLabels
      [] k = "SpanAndCategory" -> SpanLabels({-1}, Names) \cup CategoryLabels
      [] k = "Relation" -> SpanLabels(Ids, RelationSpanNames) \cup RelationLabels

has_name(label) == label.cls # "TextLabel"

isinstance(label, cls) == label.cls = cls

TypeClassOf(label) ==
    CASE label.cls = "CategoryLabel" -> "CategoryType"
      [] label.cls = "SpanLabel" -> "SpanType"
      [] label.cls = "RelationLabel" -> "RelationType"
      [] OTHER -> "None"

\* Label.create_type(project): an unsaved LabelType, or None for a Text label.
Label_create_type(label, proj) ==
    [cls |-> TypeClassOf(label), pk |-> 0, project |-> proj, text |-> label.name]

\* A durable label before it is saved (pk 0).  `label` is the pk of its
\* LabelType, from_id and to_id the pks of the Spans of a Relation.
LabelModel(cls, uuid, user, example, label, from_id, to_id) ==
    [cls |-> cls, pk |-> 0, uuid |-> uuid, user |-> user, example |-> example.pk,
     label |-> label, from_id |-> from_id, to_id |-> to_id]

NoRow == [cls |-> "None", pk |-> 0]

\* kwargs without "span_mapping".
NoKwargs == [present |-> FALSE, span_mapping |-> EmptyDict]

Kwargs(span_mapping) == [present |-> TRUE, span_mapping |-> span_mapping]

\* Label.create(user, example, mapping, **kwargs): the durable label, or the
\* KeyError of the failed dict lookup.
Label_create(label, user, example, map, kwargs) ==
    CASE label.cls = "TextLabel" ->
           [err |-> "", row |-> LabelModel("TextLabel", label.uuid, user, example, 0, 0, 0)]
      [] label.cls = "CategoryLabel" ->
           IF label.name \notin DOMAIN map
           THEN [err |-> "KeyError_label_type", row |-> NoRow]
           ELSE [err |-> "",
                 row |-> LabelModel("Category", label.uuid, user, example,
                                    map[label.name].pk, 0, 0)]
      [] label.cls = "SpanLabel" ->
           IF label.name \notin DOMAIN map
           THEN [err |-> "KeyError_label_type", row |-> NoRow]
           ELSE [err |-> "",
                 row |-> LabelModel("Span", label.uuid, user, example,
                                    map[label.name].pk, 0, 0)]
      [] label.cls = "RelationLabel" ->
           IF label.name \notin DOMAIN map
           THEN [err |-> "KeyError_label_type", row |-> NoRow]
           ELSE IF ~kwargs.present
           THEN [err |-> "KeyError_span_mapping", row |-> NoRow]
           ELSE IF \/ label.from_id \notin DOMAIN kwargs.span_mapping
                   \/ label.to_id \notin DOMAIN kwargs.span_mapping
           THEN [err |-> "KeyError_span", row |-> NoRow]
           ELSE [err |-> "",
                 row |-> LabelModel("Relation", label.uuid, user, example,
                                    map[label.name].pk,
                                    kwargs.span_mapping[label.from_id].pk,
                                    kwargs.span_mapping[label.to_id].pk)]

\* The first exception of a sequence of results, "" if there is none.
RECURSIVE FirstErr(_)
FirstErr(rs) ==
    IF rs = <<>> THEN ""
    ELSE IF Head(rs).err # "" THEN Head(rs).err ELSE FirstErr(Tail(rs))

(***************************************************************************)
(* Record.                                                                 *)
(***************************************************************************)
\* The property Record.label: the named labels of the Record.
LabelKept(l) == has_name(l) /\ l.name # ""

Record_label(rec) == SelectSeq(rec.label, LabelKept)

\* Record.clean that warns but keeps the label list of the Record.
Record_clean_keeping(rec, label) ==
    LET changed == Len(label) # Len(Record_label(rec))
    IN [record |-> rec, warning |-> IF changed THEN <<rec.line_num>> ELSE <<>>]

\* Record.clean(cleaner), `label` being what cleaner.clean(self._label) returned.
Record_clean(rec, label) ==
    LET changed == Len(label) # Len(Record_label(rec))
    IN [record |-> [rec EXCEPT !.label = label],
        warning |-> IF changed THEN <<rec.line_num>> ELSE <<>>]

Record_create_data(rec, proj) ==
    [cls |-> "Example", pk |-> 0, project |-> proj, text |-> rec.data, meta |-> rec.meta]

IsNotNone(x) == x.cls # "None"

Record_create_label_type(rec, proj) ==
    LET labels == [i \in 1..Len(rec.label) |-> Label_create_type(rec.label[i], proj)]
    IN SelectSeq(labels, IsNotNone)

\* Record.create_label that ignores label_class.
Record_create_label_unfiltered(rec, user, example, map, label_class, kwargs) ==
    LET res == [i \in 1..Len(rec.label) |->
                   Label_create(rec.label[i], user, example, map, kwargs)]
    IN [err |-> FirstErr(res), rows |-> [i \in 1..Len(rec.label) |-> res[i].row]]

\* Record.create_label: [err, rows].  label_class "None" stands for None.
Record_create_label(rec, user, example, map, label_class, kwargs) ==
    LET sel == IF label_class = "None" THEN rec.label
               ELSE SelectSeq(rec.label, LAMBDA l : isinstance(l, label_class))
        kw == IF label_class = "None" THEN NoKwargs ELSE kwargs
        res == [i \in 1..Len(sel) |-> Label_create(sel[i], user, example, map, kw)]
    IN [err |-> FirstErr(res), rows |-> [i \in 1..Len(sel) |-> res[i].row]]

\* select_label that builds the selected labels anew: a label gets its uuid
\* when it is constructed, so the copies have other uuids.
Record_select_label_copying(rec, label_class) ==
    LET sel == SelectSeq(rec.label, LAMBDA l : isinstance(l, label_class))
    IN [i \in 1..Len(sel) |-> [sel[i] EXCEPT !.uuid = @ + 100]]

Record_select_label(rec, label_class) ==
    SelectSeq(rec.label, LAMBDA l : isinstance(l, label_class))

(***************************************************************************)
(* The store: Model.objects.bulk_create and Model.objects.filter.          *)
(***************************************************************************)
Tables ==
    {"Example", "CategoryType", "SpanType", "RelationType",
     "Category", "Span", "TextLabel", "Relation"}

\* The objects as bulk_create returns them: in input order, each with the pk
\* the table assigns.
Saved(table, objs) == [i \in 1..Len(objs) |-> [objs[i] EXCEPT !.pk = Len(table) + i]]

bulk_create(table, objs) == table \o Saved(table, objs)

\* The unique key (project, text) of a LabelType table.
Conflicts(table, obj) ==
    \E i \in 1..Len(table) : table[i].project = obj.project /\ table[i].text = obj.text

\* bulk_create without ignore_conflicts: every object is inserted.
bulk_create_conflicting(table, objs) == bulk_create(table, objs)

RECURSIVE bulk_create_ignore_conflicts(_, _)
bulk_create_ignore_conflicts(table, objs) ==
    IF objs = <<>> THEN table
    ELSE bulk_create_ignore_conflicts(
             IF Conflicts(table, Head(objs)) THEN table
             ELSE bulk_create(table, <<Head(objs)>>),
             Tail(objs))

\* objects.filter without the project: every row of the table.
filter_project_all(table, proj) == table

filter_project(table, proj) == SelectSeq(table, LAMBDA r : r.project = proj)

filter_uuid_in(table, us) == SelectSeq(table, LAMBDA r : r.uuid \in Range(us))

(***************************************************************************)
(* LabeledExamples: the pure part of each method.                          *)
(***************************************************************************)
GroupAdd(gs, x) ==
    IF \E i \in 1..Len(gs) : gs[i].cls = x.cls
    THEN [i \in 1..Len(gs) |->
             IF gs[i].cls = x.cls
             THEN [gs[i] EXCEPT !.instances = Append(@, x)]
             ELSE gs[i]]
    ELSE Append(gs, [cls |-> x.cls, instances |-> <<x>>])

\* group_by_class(instances): the groups in the order a dict keeps its keys,
\* the order in which each class first occurs.
RECURSIVE group_by_class(_)
group_by_class(instances) ==
    IF instances = <<>> THEN <<>>
    ELSE LET n == Len(instances)
         IN GroupAdd(group_by_class(SubSeq(instances, 1, n - 1)), instances[n])

\* The Examples in the reverse order of the Records.
create_data_examples_reversed(recs, proj) ==
    [i \in 1..Len(recs) |-> Record_create_data(recs[Len(recs) + 1 - i], proj)]

\* create_data, line 88: the unsaved Examples.
create_data_examples(recs, proj) ==
    [i \in 1..Len(recs) |-> Record_create_data(recs[i], proj)]

\* create_label_type, lines 93-95: the groups that line 96 inserts.
create_label_type_groups(recs, proj) ==
    group_by_class(
        Flatten([i \in 1..Len(recs) |-> Record_create_label_type(recs[i], proj)]))

\* create_mapping that does not filter by project.
create_mapping_unscoped(st, proj, label_type) ==
    LET rows == st[label_type]
    IN Dict([i \in 1..Len(rows) |-> rows[i].text], rows)

create_mapping(st, proj, label_type) ==
    LET rows == filter_project(st[label_type], proj)
    IN Dict([i \in 1..Len(rows) |-> rows[i].text], rows)

Min(a, b) == IF a < b THEN a ELSE b

\* extract_labels that drops a label which fails to resolve.
extract_labels_swallowing(recs, user, exs, map, label_class, kwargs) ==
    LET n == Min(Len(recs), Len(exs))
        res == [i \in 1..n |->
                   Record_create_label(recs[i], user, exs[i], map, label_class, kwargs)]
    IN [err |-> "",
        rows |-> SelectSeq(Flatten([i \in 1..n |-> res[i].rows]), IsNotNone)]

\* extract_labels that gives every Record the first Example.
extract_labels_first_example(recs, user, exs, map, label_class, kwargs) ==
    LET n == Min(Len(recs), Len(exs))
        res == [i \in 1..n |->
                   Record_create_label(recs[i], user, exs[1], map, label_class, kwargs)]
    IN [err |-> FirstErr(res), rows |-> Flatten([i \in 1..n |-> res[i].rows])]

\* extract_labels: [err, rows]; zip pairs Record i with Example i and stops
\* at the shorter of the two lists.
extract_labels(recs, user, exs, map, label_class, kwargs) ==
    LET n == Min(Len(recs), Len(exs))
        res == [i \in 1..n |->
                   Record_create_label(recs[i], user, exs[i], map, label_class, kwargs)]
    IN [err |-> FirstErr(res), rows |-> Flatten([i \in 1..n |-> res[i].rows])]

\* create() that runs its second phase for every variant.
AfterCreateData_typed(k) == "create_label_type"

\* create() without its second phase.
AfterCreateData_skipping(k) == "create_label"

\* create(): the phase that follows create_data.  TextExamples.create goes
\* on to create_label, every other variant to create_label_type.
AfterCreateData(k) == IF k = "Text" THEN "create_label" ELSE "create_label_type"

\* The first step of create_label of each variant.
CreateLabelEntry(k) ==
    CASE k = "Category" -> "category_mapping"
      [] k = "Span" -> "span_mapping"
      [] k = "Text" -> "text_insert"
      [] k = "SpanAndCategory" -> "sc_span_mapping"
      [] k = "Relation" -> "rel_span_mapping"

PhaseEntry(phase, k) == IF phase = "create_label" THEN CreateLabelEntry(k) ELSE phase

\* RelationExamples.create_label, lines 165-167.
original_spans(recs) ==
    Flatten([i \in 1..Len(recs) |-> Record_select_label(recs[i], "SpanLabel")])

\* The map built of Spans that were not read back: they have no pk.
build_uuid_to_span_unsaved(st, us) ==
    Dict(us, [i \in 1..Len(us) |->
                 [cls |-> "Span", pk |-> 0, uuid |-> us[i], user |-> 0, example |-> 0,
                  label |-> 0, from_id |-> 0, to_id |-> 0]])

\* The map keyed by the pk of the Spans read back.
build_uuid_to_span_by_pk(st, us) ==
    LET rows == filter_uuid_in(st["Span"], us)
    IN Dict([i \in 1..Len(rows) |-> rows[i].pk], rows)

\* RelationExamples.create_label, line 168.
build_uuid_to_span(st, us) ==
    LET rows == filter_uuid_in(st["Span"], us)
    IN Dict([i \in 1..Len(rows) |-> rows[i].uuid], rows)

\* RelationExamples.create_label, line 171: [err, dict].
build_id_to_span(spans, u2s) ==
    IF \E i \in 1..Len(spans) : spans[i].uuid \notin DOMAIN u2s
    THEN [err |-> "KeyError_uuid", dict |-> EmptyDict]
    ELSE [err |-> "",
          dict |-> Dict([i \in 1..Len(spans) |-> spans[i].id],
                        [i \in 1..Len(spans) |-> u2s[spans[i].uuid]])]

User(p) == p

(***************************************************************************)
(* The batches an invocation can be given.                                 *)
(***************************************************************************)
\* The places where a sequence of n labels is cut into r Records.
Cuts(n, r) ==
    {c \in [1..(r - 1) -> 0..n] : \A i \in 1..(r - 2) : c[i] <= c[i + 1]}

\* Record k holds the labels after cut k-1 up to cut k.  A label gets its
\* uuid when it is constructed, and no two labels share one.
MakeRecords(p, s, c) ==
    LET r == Len(c) + 1
        lo(k) == IF k = 1 THEN 0 ELSE c[k - 1]
        hi(k) == IF k = r THEN Len(s) ELSE c[k]
        U == [j \in 1..Len(s) |-> [s[j] EXCEPT !.uuid = 10 * p + j]]
    IN [k \in 1..r |->
           [data |-> <<p, k>>, label |-> SubSeq(U, lo(k) + 1, hi(k)),
            meta |-> <<"meta", k>>, line_num |-> k]]

\* Within one Record no two spans share an explicit id.
WellFormed(rec) ==
    \A i, j \in 1..Len(rec.label) :
        (/\ i # j
         /\ rec.label[i].cls = "SpanLabel"
         /\ rec.label[j].cls = "SpanLabel"
         /\ rec.label[i].id # -1) => rec.label[i].id # rec.label[j].id

NoMapping == [t \in {"CategoryType", "SpanType", "RelationType"} |-> EmptyDict]

InitLocals ==
    /\ store = [t \in Tables |-> <<>>]
    /\ warnings = [p \in Procs |-> <<>>]
    /\ ci = [p \in Procs |-> 1]
    /\ err = [p \in Procs |-> ""]
    /\ examples = [p \in Procs |-> <<>>]
    /\ groups = [p \in Procs |-> <<>>]
    /\ mapping = [p \in Procs |-> NoMapping]
    /\ pending = [p \in Procs |-> <<>>]
    /\ uuids = [p \in Procs |-> <<>>]
    /\ uuid_to_span = [p \in Procs |-> EmptyDict]
    /\ id_to_span = [p \in Procs |-> EmptyDict]

\* One invocation: invocation 2 has nothing to do.
Init ==
    /\ InitLocals
    /\ project = [p \in Procs |-> "P1"]
    /\ pc = [p \in Procs |-> IF p = 1 THEN "clean" ELSE "done"]
    /\ \E k \in Kinds :
          /\ kind = [p \in Procs |-> k]
          /\ \E s \in SeqsUpTo(LabelAlphabet(k), MaxLabels) :
                \E r \in 1..MaxRecords :
                    \E c \in Cuts(Len(s), r) :
                        LET b == MakeRecords(1, s, c)
                        IN /\ \A i \in 1..Len(b) : WellFormed(b[i])
                           /\ records = [p \in Procs |-> IF p = 1 THEN b ELSE <<>>]

\* Two invocations, of the same project or of two projects.
InitConc ==
    /\ InitLocals
    /\ pc = [p \in Procs |-> "clean"]
    /\ \E q \in Projects : project = [p \in Procs |-> IF p = 1 THEN "P1" ELSE q]
    /\ \E k1 \in Kinds, k2 \in Kinds :
          /\ kind = [p \in Procs |-> IF p = 1 THEN k1 ELSE k2]
          /\ \E s1 \in SeqsUpTo(LabelAlphabet(k1), ConcLabels),
                s2 \in SeqsUpTo(LabelAlphabet(k2), ConcLabels) :
                \E r1 \in 1..ConcRecords, r2 \in 1..ConcRecords :
                    \E c1 \in Cuts(Len(s1), r1), c2 \in Cuts(Len(s2), r2) :
                        LET b1 == MakeRecords(1, s1, c1)
                            b2 == MakeRecords(2, s2, c2)
                        IN /\ \A i \in 1..Len(b1) : WellFormed(b1[i])
                           /\ \A i \in 1..Len(b2) : WellFormed(b2[i])
                           /\ records = [p \in Procs |-> IF p = 1 THEN b1 ELSE b2]

(***************************************************************************)
(* The steps of an invocation.                                             *)
(***************************************************************************)
Set(f, p, v) == [f EXCEPT ![p] = v]

\* The locals of RelationExamples.create_label.
relLocals == <<uuids, uuid_to_span, id_to_span>>

\* Record.clean of the next Record of the batch.  The cleaner is an external
\* rule: it returns any sub-list of the labels.
Clean(p) ==
    /\ pc[p] = "clean"
    /\ LET i == ci[p]
           rec == records[p][i]
       IN \E K \in SUBSET (1..Len(rec.label)) :
             LET res == Record_clean(rec, Pick(rec.label, K, 1))
             IN /\ records' = Set(records, p, [records[p] EXCEPT ![i] = res.record])
                /\ warnings' = Set(warnings, p, warnings[p] \o res.warning)
    /\ ci' = Set(ci, p, ci[p] + 1)
    /\ pc' = Set(pc, p, IF ci[p] = Len(records[p]) THEN "create_data" ELSE "clean")
    /\ UNCHANGED <<store, kind, project, err, examples, groups, mapping, pending,
                   relLocals>>

\* LabeledExamples.create_data, lines 87-90.
CreateData(p) ==
    /\ pc[p] = "create_data"
    /\ LET objs == create_data_examples(records[p], project[p])
       IN /\ store' = [store EXCEPT !["Example"] = bulk_create(@, objs)]
          /\ examples' = Set(examples, p, Saved(store["Example"], objs))
    /\ pc' = Set(pc, p, PhaseEntry(AfterCreateData(kind[p]), kind[p]))
    /\ UNCHANGED <<kind, project, records, warnings, ci, err, groups, mapping,
                   pending, relLocals>>

\* LabeledExamples.create_label_type, lines 93-95.
DeriveLabelTypes(p) ==
    /\ pc[p] = "create_label_type"
    /\ LET gs == create_label_type_groups(records[p], project[p])
       IN /\ groups' = Set(groups, p, gs)
          /\ pc' = Set(pc, p, IF gs = <<>> THEN CreateLabelEntry(kind[p])
                              ELSE "insert_label_type")
    /\ UNCHANGED <<store, kind, project, records, warnings, ci, err, examples,
                   mapping, pending, relLocals>>

\* LabeledExamples.create_label_type, line 96: one turn of the loop.
InsertLabelTypes(p) ==
    /\ pc[p] = "insert_label_type"
    /\ LET g == Head(groups[p])
       IN store' = [store EXCEPT
                       ![g.cls] = bulk_create_ignore_conflicts(@, g.instances)]
    /\ groups' = Set(groups, p, Tail(groups[p]))
    /\ pc' = Set(pc, p, IF Tail(groups[p]) = <<>> THEN CreateLabelEntry(kind[p])
                        ELSE "insert_label_type")
    /\ UNCHANGED <<kind, project, records, warnings, ci, err, examples, mapping,
                   pending, relLocals>>

\* A create_mapping call of create_label: mapping[label_type] is built and the
\* invocation goes on to `next`.
MappingStep(p, at, label_type, next) ==
    /\ pc[p] = at
    /\ mapping' = Set(mapping, p,
                      [mapping[p] EXCEPT
                          ![label_type] = create_mapping(store, project[p], label_type)])
    /\ pc' = Set(pc, p, next)
    /\ UNCHANGED <<store, kind, project, records, warnings, ci, err, examples,
                   groups, pending, relLocals>>

\* An extract_labels call followed by the bulk_create of what it returned.
ExtractAndInsert(p, at, label_type, table) ==
    /\ pc[p] = at
    /\ LET map == IF label_type = "None" THEN EmptyDict ELSE mapping[p][label_type]
           ex == extract_labels(records[p], User(p), examples[p], map, "None", NoKwargs)
       IN IF ex.err # ""
          THEN /\ pc' = Set(pc, p, "failed")
               /\ err' = Set(err, p, ex.err)
               /\ UNCHANGED store
          ELSE /\ pc' = Set(pc, p, "done")
               /\ store' = [store EXCEPT ![table] = bulk_create(@, ex.rows)]
               /\ UNCHANGED err
    /\ UNCHANGED <<kind, project, records, warnings, ci, examples, groups, mapping,
                   pending, relLocals>>

\* CategoryExamples.create_label, lines 124 and 125-126.
CategoryMapping(p) ==
    MappingStep(p, "category_mapping", "CategoryType", "category_insert")

CategoryInsert(p) == ExtractAndInsert(p, "category_insert", "CategoryType", "Category")

\* SpanExamples.create_label, lines 131 and 132-133.
SpanMapping(p) == MappingStep(p, "span_mapping", "SpanType", "span_insert")

SpanInsert(p) == ExtractAndInsert(p, "span_insert", "SpanType", "Span")

\* TextExamples.create_label, lines 142-143.
TextInsert(p) == ExtractAndInsert(p, "text_insert", "None", "TextLabel")

\* SpanAndCategoryExamples.create_label, lines 148 and 149.
SCSpanMapping(p) == MappingStep(p, "sc_span_mapping", "SpanType", "sc_category_mapping")

SCCategoryMapping(p) ==
    MappingStep(p, "sc_category_mapping", "CategoryType", "sc_span_insert")

\* SpanAndCategoryExamples.create_label, lines 150-152.
SCSpanInsert(p) ==
    /\ pc[p] = "sc_span_insert"
    /\ LET spans == extract_labels(records[p], User(p), examples[p],
                                   mapping[p]["SpanType"], "SpanLabel", NoKwargs)
           categories == extract_labels(records[p], User(p), examples[p],
                                        mapping[p]["CategoryType"], "CategoryLabel",
                                        NoKwargs)
           e == IF spans.err # "" THEN spans.err ELSE categories.err
       IN IF e # ""
          THEN /\ pc' = Set(pc, p, "failed")
               /\ err' = Set(err, p, e)
               /\ UNCHANGED <<store, pending>>
          ELSE /\ pc' = Set(pc, p, "sc_category_insert")
               /\ store' = [store EXCEPT !["Span"] = bulk_create(@, spans.rows)]
               /\ pending' = Set(pending, p, categories.rows)
               /\ UNCHANGED err
    /\ UNCHANGED <<kind, project, records, warnings, ci, examples, groups, mapping,
                   relLocals>>

\* SpanAndCategoryExamples.create_label, line 153.
SCCategoryInsert(p) ==
    /\ pc[p] = "sc_category_insert"
    /\ store' = [store EXCEPT !["Category"] = bulk_create(@, pending[p])]
    /\ pending' = Set(pending, p, <<>>)
    /\ pc' = Set(pc, p, "done")
    /\ UNCHANGED <<kind, project, records, warnings, ci, err, examples, groups,
                   mapping, relLocals>>

\* RelationExamples.create_label, lines 158 and 159.
RelSpanMapping(p) ==
    MappingStep(p, "rel_span_mapping", "SpanType", "rel_relation_mapping")

RelRelationMapping(p) ==
    MappingStep(p, "rel_relation_mapping", "RelationType", "rel_span_insert")

\* RelationExamples.create_label, lines 161-163.
RelSpanInsert(p) ==
    /\ pc[p] = "rel_span_insert"
    /\ LET labels == extract_labels(records[p], User(p), examples[p],
                                    mapping[p]["SpanType"], "SpanLabel", NoKwargs)
       IN IF labels.err # ""
          THEN /\ pc' = Set(pc, p, "failed")
               /\ err' = Set(err, p, labels.err)
               /\ UNCHANGED <<store, uuids>>
          ELSE /\ pc' = Set(pc, p, "rel_span_query")
               /\ uuids' = Set(uuids, p,
                               [i \in 1..Len(labels.rows) |-> labels.rows[i].uuid])
               /\ store' = [store EXCEPT !["Span"] = bulk_create(@, labels.rows)]
               /\ UNCHANGED err
    /\ UNCHANGED <<kind, project, records, warnings, ci, examples, groups, mapping,
                   pending, uuid_to_span, id_to_span>>

\* RelationExamples.create_label, lines 165-173: the Spans are read back by
\* uuid and the Relations are resolved against them.
RelSpanQuery(p) ==
    /\ pc[p] = "rel_span_query"
    /\ LET u2s == build_uuid_to_span(store, uuids[p])
           i2s == build_id_to_span(original_spans(records[p]), u2s)
           relations == extract_labels(records[p], User(p), examples[p],
                                       mapping[p]["RelationType"], "RelationLabel",
                                       Kwargs(i2s.dict))
           e == IF i2s.err # "" THEN i2s.err ELSE relations.err
       IN /\ uuid_to_span' = Set(uuid_to_span, p, u2s)
          /\ id_to_span' = Set(id_to_span, p, i2s.dict)
          /\ IF e # ""
             THEN /\ pc' = Set(pc, p, "failed")
                  /\ err' = Set(err, p, e)
                  /\ UNCHANGED pending
             ELSE /\ pc' = Set(pc, p, "rel_insert")
                  /\ pending' = Set(pending, p, relations.rows)
                  /\ UNCHANGED err
    /\ UNCHANGED <<store, kind, project, records, warnings, ci, examples, groups,
                   mapping, uuids>>

\* RelationExamples.create_label, line 174.
RelInsert(p) ==
    /\ pc[p] = "rel_insert"
    /\ store' = [store EXCEPT !["Relation"] = bulk_create(@, pending[p])]
    /\ pending' = Set(pending, p, <<>>)
    /\ pc' = Set(pc, p, "done")
    /\ UNCHANGED <<kind, project, records, warnings, ci, err, examples, groups,
                   mapping, relLocals>>

\* The steps that begin with a store operation.
StoreSteps ==
    {"create_data", "insert_label_type", "category_mapping", "category_insert",
     "span_mapping", "span_insert", "text_insert", "sc_span_mapping",
     "sc_category_mapping", "sc_span_insert", "sc_category_insert",
     "rel_span_mapping", "rel_relation_mapping", "rel_span_insert",
     "rel_span_query", "rel_insert"}

\* create() that catches the exception of a store operation and issues the
\* operation again.
Propagate_retrying(at) == at

\* create(), lines 82-85, and the methods it calls have no try: an exception
\* raised at a step leaves create(), whatever the step.
Propagate(at) == "failed"

\* A store operation fails: the exception leaves create().
StoreFault(p) ==
    /\ pc[p] \in StoreSteps
    /\ pc' = Set(pc, p, Propagate(pc[p]))
    /\ err' = Set(err, p, "StoreError")
    /\ UNCHANGED <<store, kind, project, records, warnings, ci, examples, groups,
                   mapping, pending, relLocals>>

Next ==
    \E p \in Procs :
        \/ Clean(p)
        \/ CreateData(p)
        \/ DeriveLabelTypes(p)
        \/ InsertLabelTypes(p)
        \/ CategoryMapping(p)
        \/ CategoryInsert(p)
        \/ SpanMapping(p)
        \/ SpanInsert(p)
        \/ TextInsert(p)
        \/ SCSpanMapping(p)
        \/ SCCategoryMapping(p)
        \/ SCSpanInsert(p)
        \/ SCCategoryInsert(p)
        \/ RelSpanMapping(p)
        \/ RelRelationMapping(p)
        \/ RelSpanInsert(p)
        \/ RelSpanQuery(p)
        \/ RelInsert(p)
        \/ StoreFault(p)

Spec == Init /\ [][Next]_vars

SpecConc == InitConc /\ [][Next]_vars

\* One invocation with a batch of several labels, or two with small batches.
InitBoth == Init \/ InitConc

SpecBoth == InitBoth /\ [][Next]_vars

(***************************************************************************)
(* Vocabulary of the properties.                                           *)
(***************************************************************************)
LabelTables == {"Category", "Span", "TextLabel", "Relation"}

\* The transient labels of class cls of Record i of invocation p.
LabelsOfRecord(p, i, cls) == {l \in Range(records[p][i].label) : l.cls = cls}

LabelsOfBatch(p, cls) ==
    UNION {LabelsOfRecord(p, i, cls) : i \in 1..Len(records[p])}

\* The rows of a table that user p (invocation p) inserted.
RowsOf(p, table) == {r \in Range(store[table]) : r.user = User(p)}

\* The Examples in the store that were made of the Records of invocation p.
ExamplesOf(p) == {e \in Range(store["Example"]) : e.text[1] = p}

\* The span a relation of Record i means by the reference key id: the span of
\* its own document that carries this id.
Referent(p, i, id) == {l \in LabelsOfRecord(p, i, "SpanLabel") : l.id = id}

SpanRowOfUuid(u) == {r \in Range(store["Span"]) : r.uuid = u}

(***************************************************************************)
(* C1.  Relation resolution correctness: after RelationExamples.create, a  *)
(* relation label whose from and to spans are present in the batch is      *)
(* persisted as a Relation whose from_id is the durable Span with the uuid *)
(* of the from span, whose to_id is the durable Span with the uuid of the  *)
(* to span, and whose type is the RelationType named by the label.         *)
(***************************************************************************)
C1_RelationResolution ==
    \A p \in Procs :
        (kind[p] = "Relation" /\ pc[p] = "done") =>
            \A i \in 1..Len(records[p]) :
                \A l \in LabelsOfRecord(p, i, "RelationLabel") :
                    \A A \in Referent(p, i, l.from_id), B \in Referent(p, i, l.to_id) :
                        \E r \in RowsOf(p, "Relation") :
                            /\ r.uuid = l.uuid
                            /\ \E sa \in SpanRowOfUuid(A.uuid) : r.from_id = sa.pk
                            /\ \E sb \in SpanRowOfUuid(B.uuid) : r.to_id = sb.pk
                            /\ r.label \in 1..Len(store["RelationType"])
                            /\ store["RelationType"][r.label].text = l.name
                            /\ store["RelationType"][r.label].project = project[p]

(***************************************************************************)
(* C2.  Dangling-reference rejection: a relation label whose from or to    *)
(* reference is absent from the reference -> durable Span mapping makes    *)
(* create() fail with a lookup error; the reference is never dropped or    *)
(* nulled, and no relation of the batch is persisted without the caller    *)
(* being told: the relations reach the store only when none dangles, and   *)
(* then all of them do, each with two saved Spans.                         *)
(***************************************************************************)
Dangles(p, l) ==
    \/ l.from_id \notin DOMAIN id_to_span[p]
    \/ l.to_id \notin DOMAIN id_to_span[p]

HasDangling(p) == \E l \in LabelsOfBatch(p, "RelationLabel") : Dangles(p, l)

C2_DanglingRejected ==
    \A p \in Procs :
        kind[p] = "Relation" =>
            /\ err[p] = "KeyError_span" =>
                   (pc[p] = "failed" /\ HasDangling(p) /\ RowsOf(p, "Relation") = {})
            /\ pc[p] \in {"rel_insert", "done"} => ~HasDangling(p)
            /\ pc[p] = "rel_insert" =>
                   Len(pending[p]) = Cardinality(LabelsOfBatch(p, "RelationLabel"))
            /\ pc[p] = "done" =>
                   /\ {r.uuid : r \in RowsOf(p, "Relation")}
                          = {l.uuid : l \in LabelsOfBatch(p, "RelationLabel")}
                   /\ \A r \in RowsOf(p, "Relation") : r.from_id # 0 /\ r.to_id # 0

\* A batch with a dangling relation and a resolvable one has failed with the
\* lookup error.
C2_Witness ==
    /\ kind[1] = "Relation"
    /\ err[1] = "KeyError_span"
    /\ \E l \in LabelsOfBatch(1, "RelationLabel") : Dangles(1, l)
    /\ \E l \in LabelsOfBatch(1, "RelationLabel") : ~Dangles(1, l)

(***************************************************************************)
(* C3.  Batch atomicity: when create() has failed (a store operation or    *)
(* the relation resolution failed), the store holds no row of the batch:   *)
(* no Example made of its Records and no label of them.                    *)
(***************************************************************************)
C3_BatchAtomicity ==
    \A p \in Procs :
        pc[p] = "failed" =>
            /\ ExamplesOf(p) = {}
            /\ \A t \in LabelTables : RowsOf(p, t) = {}

(***************************************************************************)
(* C4.  Ordering invariant: create_data returns one durable Example per    *)
(* Record, in the order of the Records, so that the zip of extract_labels  *)
(* pairs Record i with the Example made of Record i: every durable label   *)
(* is attached to the Example made of the Record that holds its label.     *)
(***************************************************************************)
CreateDataReturned(p) ==
    \/ pc[p] \notin {"clean", "create_data", "failed"}
    \/ pc[p] = "failed" /\ examples[p] # <<>>

C4_OrderingInvariant ==
    \A p \in Procs :
        /\ CreateDataReturned(p) =>
               /\ Len(examples[p]) = Len(records[p])
               /\ \A i \in 1..Len(records[p]) :
                      /\ examples[p][i].text = records[p][i].data
                      /\ examples[p][i].meta = records[p][i].meta
                      /\ examples[p][i].pk \in 1..Len(store["Example"])
                      /\ store["Example"][examples[p][i].pk] = examples[p][i]
        /\ \A t \in LabelTables :
               \A r \in RowsOf(p, t) :
                   \E i \in 1..Len(records[p]) :
                       /\ \E l \in Range(records[p][i].label) : l.uuid = r.uuid
                       /\ r.example \in 1..Len(store["Example"])
                       /\ store["Example"][r.example].text = records[p][i].data

\* Two Records, each with a label, have been committed.
C4_Witness ==
    /\ pc[1] = "done"
    /\ Len(records[1]) = 2
    /\ \A i \in 1..2 : records[1][i].label # <<>>
    /\ \E t \in LabelTables : Cardinality(RowsOf(1, t)) >= 2

(***************************************************************************)
(* C5.  Label-type idempotence: whatever create_label_type calls have run, *)
(* within one batch or across batches, each LabelType table holds exactly  *)
(* one row per (project, name) pair that a Record implied, and no other    *)
(* row: a pair implied twice or present already adds no row.               *)
(***************************************************************************)
TypeTables == {"CategoryType", "SpanType", "RelationType"}

AllLabels(p) == UNION {Range(records[p][i].label) : i \in 1..Len(records[p])}

\* The (LabelType class, name) pairs the Records of invocation p imply.
ImpliedTypes(p) ==
    {<<TypeClassOf(l), l.name>> : l \in {x \in AllLabels(p) : TypeClassOf(x) # "None"}}

TypeRows(t, proj, name) ==
    {i \in 1..Len(store[t]) : store[t][i].project = proj /\ store[t][i].text = name}

\* The steps of create_label, and the end of create().
CreateLabelSteps ==
    {"category_mapping", "category_insert", "span_mapping", "span_insert",
     "text_insert", "sc_span_mapping", "sc_category_mapping", "sc_span_insert",
     "sc_category_insert", "rel_span_mapping", "rel_relation_mapping",
     "rel_span_insert", "rel_span_query", "rel_insert", "done"}

UniqueLabelTypes ==
    \A t \in TypeTables :
        \A i, j \in 1..Len(store[t]) :
            (store[t][i].project = store[t][j].project
                /\ store[t][i].text = store[t][j].text) => i = j

C5_LabelTypeIdempotence ==
    /\ UniqueLabelTypes
    /\ \A p \in Procs :
           pc[p] \in CreateLabelSteps =>
               \A tn \in ImpliedTypes(p) :
                   Cardinality(TypeRows(tn[1], project[p], tn[2])) = 1
    /\ \A t \in TypeTables :
           \A i \in 1..Len(store[t]) :
               \E p \in Procs :
                   /\ pc[p] # "clean"
                   /\ store[t][i].project = project[p]
                   /\ <<t, store[t][i].text>> \in ImpliedTypes(p)

\* The same pair was implied twice, by two labels of one batch or by two
\* batches of one project, and create_label_type has run for each.
C5_Witness ==
    /\ \A p \in Procs : pc[p] = "done"
    /\ \/ \E l1, l2 \in AllLabels(1) :
              /\ l1.uuid # l2.uuid
              /\ TypeClassOf(l1) # "None"
              /\ TypeClassOf(l1) = TypeClassOf(l2)
              /\ l1.name = l2.name
       \/ /\ records[2] # <<>>
          /\ project[1] = project[2]
          /\ ImpliedTypes(1) \cap ImpliedTypes(2) # {}

(***************************************************************************)
(* C6.  Concurrent label-type insert safety: when two create() of the same *)
(* project run concurrently and imply overlapping label types, under every *)
(* interleaving no invocation fails to resolve a label type, the store has *)
(* at most one LabelType row per (project, name), and the mappings of each *)
(* invocation resolve every name its own batch implied to the row of its   *)
(* own project.                                                            *)
(***************************************************************************)
\* The steps at which every mapping of create_label has been built.
MappedSteps ==
    {"category_insert", "span_insert", "sc_span_insert", "sc_category_insert",
     "rel_span_insert", "rel_span_query", "rel_insert", "done"}

MappingResolves(p) ==
    \A tn \in ImpliedTypes(p) :
        /\ tn[2] \in DOMAIN mapping[p][tn[1]]
        /\ mapping[p][tn[1]][tn[2]] \in Range(store[tn[1]])
        /\ mapping[p][tn[1]][tn[2]].project = project[p]
        /\ mapping[p][tn[1]][tn[2]].text = tn[2]

C6_ConcurrentLabelTypes ==
    /\ UniqueLabelTypes
    /\ \A p \in Procs :
           /\ err[p] # "KeyError_label_type"
           /\ (pc[p] \in MappedSteps /\ kind[p] # "Text") => MappingResolves(p)

\* Both invocations of one project are in the middle of create_label, each
\* with its mappings built, and their batches imply a common label type.
C6_Witness ==
    /\ project[1] = project[2]
    /\ ImpliedTypes(1) \cap ImpliedTypes(2) # {}
    /\ \A p \in Procs : pc[p] \in MappedSteps \ {"done"}

(***************************************************************************)
(* C7.  Cleaning non-destructiveness: Record.clean never increases the     *)
(* label count of the Record, and it returns a parse warning if and only   *)
(* if the label count after cleaning is strictly smaller than before, also *)
(* for Records whose labels have no name.                                  *)
(***************************************************************************)
C7_CleanWarnsIffShrinks ==
    [][\A p \in Procs :
          (pc[p] = "clean" /\ ci'[p] = ci[p] + 1) =>
              LET before == Len(records[p][ci[p]].label)
                  after == Len(records'[p][ci[p]].label)
                  warned == Len(warnings'[p]) > Len(warnings[p])
              IN /\ after <= before
                 /\ warned <=> (after < before)]_vars

(***************************************************************************)
(* C8.  Phase ordering of label types before labels: in create() of a      *)
(* typed kind, create_label_type has inserted every implied label type     *)
(* before a mapping is built or a label is resolved; the mappings of phase *)
(* 3 hold every implied name and no named label fails to resolve.          *)
(***************************************************************************)
C8_TypesBeforeLabels ==
    \A p \in Procs :
        /\ pc[p] \in CreateLabelSteps =>
               /\ groups[p] = <<>>
               /\ \A tn \in ImpliedTypes(p) : TypeRows(tn[1], project[p], tn[2]) # {}
        /\ pc[p] \in {"clean", "create_data", "create_label_type", "insert_label_type"} =>
               /\ mapping[p] = NoMapping
               /\ \A t \in LabelTables : RowsOf(p, t) = {}
        /\ (pc[p] \in MappedSteps /\ kind[p] # "Text") =>
               \A tn \in ImpliedTypes(p) : tn[2] \in DOMAIN mapping[p][tn[1]]
        /\ err[p] # "KeyError_label_type"

\* A batch of a typed kind that implies two label types has been committed.
C8_Witness ==
    /\ pc[1] = "done"
    /\ kind[1] # "Text"
    /\ Cardinality(ImpliedTypes(1)) >= 2
    /\ \E t \in LabelTables : Cardinality(RowsOf(1, t)) >= 2

(***************************************************************************)
(* C9.  Span-before-relation ordering: in RelationExamples.create_label no *)
(* Relation is resolved or inserted before the Spans of the batch have     *)
(* been inserted and read back by uuid; every Relation that is resolved or *)
(* persisted references Spans that are in the store.                       *)
(***************************************************************************)
C9_SpansBeforeRelations ==
    \A p \in Procs :
        kind[p] = "Relation" =>
            /\ (pending[p] # <<>> \/ RowsOf(p, "Relation") # {} \/ pc[p] = "rel_insert") =>
                   \A l \in LabelsOfBatch(p, "SpanLabel") :
                       /\ SpanRowOfUuid(l.uuid) # {}
                       /\ l.uuid \in DOMAIN uuid_to_span[p]
                       /\ uuid_to_span[p][l.uuid] \in Range(store["Span"])
            /\ \A r \in RowsOf(p, "Relation") \cup Range(pending[p]) :
                   /\ r.from_id \in 1..Len(store["Span"])
                   /\ r.to_id \in 1..Len(store["Span"])

\* A relation between two spans has been persisted.
C9_Witness ==
    /\ kind[1] = "Relation"
    /\ pc[1] = "done"
    /\ \E r \in RowsOf(1, "Relation") : r.from_id # r.to_id

(***************************************************************************)
(* C10.  Uuid preservation: every durable Span of the span, span+category  *)
(* and relation variants carries the uuid of the transient Span label it   *)
(* was made of, and the uuid -> durable Span map of the relation variant   *)
(* has one entry for the uuid of every Span label of the batch.            *)
(***************************************************************************)
SpansInserted(p) ==
    \/ kind[p] = "Span" /\ pc[p] = "done"
    \/ kind[p] = "SpanAndCategory" /\ pc[p] \in {"sc_category_insert", "done"}
    \/ kind[p] = "Relation" /\ pc[p] \in {"rel_span_query", "rel_insert", "done"}

SpansReadBack(p) ==
    /\ kind[p] = "Relation"
    /\ pc[p] \in {"rel_insert", "done"} \/ err[p] \in {"KeyError_span", "KeyError_uuid"}

C10_UuidPreservation ==
    \A p \in Procs :
        /\ \A r \in RowsOf(p, "Span") :
               \E i \in 1..Len(records[p]) :
                   \E l \in LabelsOfRecord(p, i, "SpanLabel") :
                       /\ r.uuid = l.uuid
                       /\ r.example = examples[p][i].pk
                       /\ r.label \in 1..Len(store["SpanType"])
                       /\ store["SpanType"][r.label].text = l.name
        /\ SpansInserted(p) =>
               \A l \in LabelsOfBatch(p, "SpanLabel") :
                   Cardinality(SpanRowOfUuid(l.uuid)) = 1
        /\ SpansReadBack(p) =>
               /\ DOMAIN uuid_to_span[p] = {l.uuid : l \in LabelsOfBatch(p, "SpanLabel")}
               /\ \A u \in DOMAIN uuid_to_span[p] :
                      /\ uuid_to_span[p][u].uuid = u
                      /\ uuid_to_span[p][u] \in Range(store["Span"])
        /\ err[p] # "KeyError_uuid"

\* The Spans of a relation batch with two Span labels have been read back.
C10_Witness ==
    /\ kind[1] = "Relation"
    /\ pc[1] = "rel_insert"
    /\ Cardinality(LabelsOfBatch(1, "SpanLabel")) >= 2
    /\ Cardinality(DOMAIN uuid_to_span[1]) >= 2

(***************************************************************************)
(* C11.  Text variant skips label-type derivation: TextExamples.create     *)
(* runs create_data and create_label only.  It never enters                *)
(* create_label_type, no LabelType table gets a row, its mapping stays     *)
(* empty, and when it returns the store holds exactly one TextLabel row    *)
(* per Text label, attached to the Example of the Record of the label.     *)
(***************************************************************************)
\* The labels of the batch in the order of the Records and of their lists.
LabelSeq(p) == Flatten([i \in 1..Len(records[p]) |-> records[p][i].label])

RowSeqOf(p, table) == SelectSeq(store[table], LAMBDA r : r.user = User(p))

C11_TextSkipsLabelTypes ==
    \A p \in Procs :
        kind[p] = "Text" =>
            /\ pc[p] \notin {"create_label_type", "insert_label_type"}
            /\ groups[p] = <<>>
            /\ mapping[p] = NoMapping
            /\ \A t \in TypeTables : store[t] = <<>>
            /\ pc[p] # "done" => RowsOf(p, "TextLabel") = {}
            /\ pc[p] = "done" =>
                   /\ Len(RowSeqOf(p, "TextLabel")) = Len(LabelSeq(p))
                   /\ \A i \in 1..Len(records[p]) :
                          \A l \in LabelsOfRecord(p, i, "TextLabel") :
                              \E r \in RowsOf(p, "TextLabel") :
                                  /\ r.uuid = l.uuid
                                  /\ r.example = examples[p][i].pk
                                  /\ store["Example"][r.example].text = records[p][i].data

\* A text batch of two Records with Text labels has been committed.
C11_Witness ==
    /\ kind[1] = "Text"
    /\ pc[1] = "done"
    /\ Len(records[1]) = 2
    /\ \A i \in 1..2 : LabelsOfRecord(1, i, "TextLabel") # {}
    /\ Len(store["TextLabel"]) >= 2

(***************************************************************************)
(* C12.  Span+category commit: when SpanAndCategoryExamples.create returns *)
(* the store holds one Example per Record, one SpanType per distinct span  *)
(* name and one CategoryType per distinct category name of the batch, one  *)
(* Span per Span label whose type is the SpanType of the label's name, and *)
(* one Category per Category label whose type is the CategoryType of the   *)
(* label's name, each attached to the Example of the Record of the label.  *)
(***************************************************************************)
NamesOf(p, cls) == {l.name : l \in LabelsOfBatch(p, cls)}

\* Table `table` holds one row for each label of class cls of the batch of p,
\* typed by the row of `type_table` of the label's name and attached to the
\* Example of the label's Record.
CommittedThrough(p, cls, table, type_table) ==
    /\ Len(RowSeqOf(p, table)) = Cardinality(LabelsOfBatch(p, cls))
    /\ \A i \in 1..Len(records[p]) :
           \A l \in LabelsOfRecord(p, i, cls) :
               \E r \in RowsOf(p, table) :
                   /\ r.cls = table
                   /\ r.uuid = l.uuid
                   /\ r.example = examples[p][i].pk
                   /\ store["Example"][r.example].text = records[p][i].data
                   /\ r.label \in 1..Len(store[type_table])
                   /\ store[type_table][r.label].text = l.name
                   /\ store[type_table][r.label].project = project[p]
                   /\ mapping[p][type_table][l.name] = store[type_table][r.label]

\* Every row of type_table of the project of p has a name that a label of
\* class cls of a batch of this project carries.
NoOtherType(p, cls, type_table) ==
    \A i \in 1..Len(store[type_table]) :
        store[type_table][i].project = project[p] =>
            \E q \in Procs :
                /\ project[q] = project[p]
                /\ store[type_table][i].text \in NamesOf(q, cls)

C12_SpanAndCategoryCommit ==
    \A p \in Procs :
        kind[p] = "SpanAndCategory" =>
            /\ err[p] \in {"", "StoreError"}
            /\ pc[p] = "done" =>
                   /\ Cardinality(ExamplesOf(p)) = Len(records[p])
                   /\ NoOtherType(p, "SpanLabel", "SpanType")
                   /\ NoOtherType(p, "CategoryLabel", "CategoryType")
                   /\ \A n \in NamesOf(p, "SpanLabel") :
                          Cardinality(TypeRows("SpanType", project[p], n)) = 1
                   /\ \A n \in NamesOf(p, "CategoryLabel") :
                          Cardinality(TypeRows("CategoryType", project[p], n)) = 1
                   /\ CommittedThrough(p, "SpanLabel", "Span", "SpanType")
                   /\ CommittedThrough(p, "CategoryLabel", "Category", "CategoryType")

\* Two Records with a span of the same name each, and a category whose name is
\* also the name of a span, have been committed.
C12_Witness ==
    /\ kind[1] = "SpanAndCategory"
    /\ pc[1] = "done"
    /\ Len(records[1]) = 2
    /\ \A i \in 1..2 : LabelsOfRecord(1, i, "SpanLabel") # {}
    /\ Cardinality(NamesOf(1, "SpanLabel")) = 1
    /\ NamesOf(1, "CategoryLabel") = NamesOf(1, "SpanLabel")
    /\ Len(store["Span"]) = 2
    /\ Len(store["Category"]) = 1

(***************************************************************************)
(* C13.  Clean warnings are non-fatal: a step of Record.clean never fails  *)
(* the invocation; it replaces the label list of its Record by a sub-list  *)
(* of it (for a kind with named labels a shorter one whenever it warns),   *)
(* adds at most the warning of this Record to the warnings and leaves the  *)
(* other Records and the store alone.  When create() then returns, the     *)
(* store holds the Example of every Record, warned or not, and exactly the *)
(* labels of the reduced lists, each attached to the Example of its        *)
(* Record.  create() fails only by a store fault or, in the relation       *)
(* variant, by a relation of the reduced lists that dangles.               *)
(***************************************************************************)
ClassOfTable(table) ==
    CASE table = "Category" -> "CategoryLabel"
      [] table = "Span" -> "SpanLabel"
      [] table = "TextLabel" -> "TextLabel"
      [] table = "Relation" -> "RelationLabel"

IsSubList(a, b) == \E K \in SUBSET (1..Len(b)) : a = Pick(b, K, 1)

CleanStepIsQuiet(p) ==
    LET i == ci[p]
        warned == warnings'[p] # warnings[p]
    IN /\ pc'[p] \in {"clean", "create_data"}
       /\ err'[p] = ""
       /\ store' = store
       /\ Len(records'[p]) = Len(records[p])
       /\ \A j \in 1..Len(records[p]) : j # i => records'[p][j] = records[p][j]
       /\ records'[p][i] = [records[p][i] EXCEPT !.label = records'[p][i].label]
       /\ IsSubList(records'[p][i].label, records[p][i].label)
       /\ warned => warnings'[p] = Append(warnings[p], records[p][i].line_num)
       /\ (warned /\ kind[p] # "Text") =>
              Len(records'[p][i].label) < Len(records[p][i].label)

CommitsReducedLists(p) ==
    /\ pc[p] = "done" =>
           /\ Len(examples[p]) = Len(records[p])
           /\ \A i \in 1..Len(records[p]) :
                  \E e \in ExamplesOf(p) :
                      e = examples[p][i] /\ e.text = records[p][i].data
           /\ \A t \in LabelTables :
                  /\ {<<r.uuid, r.example>> : r \in RowsOf(p, t)}
                         = UNION {{<<l.uuid, examples[p][i].pk>> :
                                      l \in LabelsOfRecord(p, i, ClassOfTable(t))} :
                                  i \in 1..Len(records[p])}
                  /\ Len(RowSeqOf(p, t)) = Cardinality(LabelsOfBatch(p, ClassOfTable(t)))
    /\ pc[p] = "failed" =>
           \/ err[p] = "StoreError"
           \/ kind[p] = "Relation" /\ err[p] = "KeyError_span" /\ HasDangling(p)

ExpectedRows(p, cls) ==
    Flatten([i \in 1..Len(records[p]) |->
                LET sel == SelectSeq(records[p][i].label, LAMBDA l : l.cls = cls)
                IN [j \in 1..Len(sel) |-> <<sel[j].uuid, examples[p][i].pk>>]])

Attribution(rows) == [k \in 1..Len(rows) |-> <<rows[k].uuid, rows[k].example>>]

C14_ExtractLabelsAttribution ==
    \A p \in Procs :
        /\ pc[p] = "done" =>
               \A t \in LabelTables :
                   Attribution(RowSeqOf(p, t)) = ExpectedRows(p, ClassOfTable(t))
        /\ SpansInserted(p) =>
               Attribution(RowSeqOf(p, "Span")) = ExpectedRows(p, "SpanLabel")
        /\ pc[p] = "sc_category_insert" =>
               Attribution(pending[p]) = ExpectedRows(p, "CategoryLabel")
        /\ pc[p] = "rel_insert" =>
               Attribution(pending[p]) = ExpectedRows(p, "RelationLabel")
        /\ \A t \in LabelTables :
               \A r \in RowsOf(p, t) :
                   \E k \in 1..Len(ExpectedRows(p, ClassOfTable(t))) :
                       ExpectedRows(p, ClassOfTable(t))[k] = <<r.uuid, r.example>>

\* The labels of one class of two Records, the first of which also holds a
\* label of another class, wait for their insert after the filtered extraction.
C14_Witness ==
    /\ pc[1] \in {"sc_category_insert", "rel_insert"}
    /\ Len(records[1]) = 2
    /\ Len(records[1][1].label) = 2
    /\ records[1][1].label[1].cls # records[1][1].label[2].cls
    /\ Len(records[1][2].label) = 1
    /\ Len(pending[1]) = 2
    /\ pending[1][1].example # pending[1][2].example

(***************************************************************************)
(* C15.  Store faults propagate without retry or masking: an invocation    *)
(* leaves every step that issues a store operation as it takes it and      *)
(* never comes back to it (the insert of the label types is taken once per *)
(* LabelType class); a store fault ends the invocation at once with the    *)
(* store's error as its error and the store as it was, and an invocation   *)
(* that has failed takes no further step and changes nothing.              *)
(***************************************************************************)
StepOrder ==
    <<"clean", "create_data", "create_label_type", "insert_label_type",
      "category_mapping", "category_insert", "span_mapping", "span_insert",
      "text_insert", "sc_span_mapping", "sc_category_mapping", "sc_span_insert",
      "sc_category_insert", "rel_span_mapping", "rel_relation_mapping",
      "rel_span_insert", "rel_span_query", "rel_insert", "done", "failed">>

Rank(step) == CHOOSE k \in 1..Len(StepOrder) : StepOrder[k] = step

\* The part of the state that belongs to invocation p.
LocalsOf(p) ==
    <<pc[p], err[p], ci[p], records[p], warnings[p], examples[p], groups[p],
      mapping[p], pending[p], uuids[p], uuid_to_span[p], id_to_span[p]>>

OneGroupPerClass(p) ==
    \A i, j \in 1..Len(groups[p]) : groups[p][i].cls = groups[p][j].cls => i = j

C15_StoreFaultsPropagate ==
    [][\A p \in Procs :
          /\ (LocalsOf(p)' # LocalsOf(p) /\ pc[p] \in StoreSteps) =>
                 /\ pc[p] # "insert_label_type" => Rank(pc'[p]) > Rank(pc[p])
                 /\ pc[p] = "insert_label_type" =>
                        \/ Rank(pc'[p]) > Rank(pc[p])
                        \/ /\ pc'[p] = pc[p]
                           /\ groups'[p] = Tail(groups[p])
                           /\ \A i \in 1..Len(groups'[p]) :
                                  groups'[p][i].cls # Head(groups[p]).cls
          /\ OneGroupPerClass(p)'
          /\ (err'[p] = "StoreError" /\ err[p] # "StoreError") =>
                 /\ pc[p] \in StoreSteps
                 /\ err[p] = ""
                 /\ pc'[p] = "failed"
                 /\ store' = store
          /\ (err[p] # "" <=> pc[p] = "failed")'
          /\ pc[p] = "failed" => /\ LocalsOf(p)' = LocalsOf(p)
                                 /\ \A t \in Tables : RowsOf(p, t)' = RowsOf(p, t)
                                 /\ ExamplesOf(p)' = ExamplesOf(p)]_vars

\* The query that reads the Spans back has failed: the Spans are in the store,
\* no Relation is.
C15_Witness ==
    /\ kind[1] = "Relation"
    /\ pc[1] = "failed"
    /\ err[1] = "StoreError"
    /\ uuids[1] # <<>>
    /\ Len(store["Span"]) = Len(uuids[1])
    /\ DOMAIN uuid_to_span[1] = {}
    /\ LabelsOfBatch(1, "RelationLabel") # {}
    /\ store["Relation"] = <<>>

(***************************************************************************)
(* C16.  Relation endpoints stay within their own document: every          *)
(* Relation that RelationExamples.create_label has resolved or persisted,  *)
(* of a relation label whose ids are ids of spans of its own Record, has   *)
(* as from_id and to_id Spans attached to the Example of the Relation      *)
(* itself, also when several Records of the batch use the same span id;    *)
(* and the id -> Span map of the batch gives, for the id of every Span     *)
(* label, the durable Span of this label.                                  *)
(***************************************************************************)
C16_EndpointsInOwnDocument ==
    \A p \in Procs :
        kind[p] = "Relation" =>
            /\ \A i \in 1..Len(records[p]) :
                   \A l \in LabelsOfRecord(p, i, "RelationLabel") :
                       (Referent(p, i, l.from_id) # {} /\ Referent(p, i, l.to_id) # {}) =>
                           \A r \in RowsOf(p, "Relation") \cup Range(pending[p]) :
                               r.uuid = l.uuid =>
                                   /\ r.example = examples[p][i].pk
                                   /\ r.from_id \in 1..Len(store["Span"])
                                   /\ r.to_id \in 1..Len(store["Span"])
                                   /\ store["Span"][r.from_id].example = r.example
                                   /\ store["Span"][r.to_id].example = r.example
            /\ pc[p] \in {"rel_insert", "done"} =>
                   \A l \in LabelsOfBatch(p, "SpanLabel") :
                       /\ l.id \in DOMAIN id_to_span[p]
                       /\ id_to_span[p][l.id].uuid = l.uuid

(***************************************************************************)
(* C17.  Project scoping of label types: every Category, Span or Relation  *)
(* that an invocation has resolved or persisted references a LabelType row *)
(* of the project of this invocation, named as its label is; every entry   *)
(* of a mapping is a row of the invocation's project.  This holds whatever *)
(* rows of the same name batches of another project have inserted, before  *)
(* or in between.                                                          *)
(***************************************************************************)
TypeTableOf(table) ==
    CASE table = "Category" -> "CategoryType"
      [] table = "Span" -> "SpanType"
      [] table = "Relation" -> "RelationType"

TypedTables == {"Category", "Span", "Relation"}

C17_ProjectScoping ==
    \A p \in Procs :
        /\ \A tt \in TypeTables :
               \A n \in DOMAIN mapping[p][tt] :
                   /\ mapping[p][tt][n].project = project[p]
                   /\ mapping[p][tt][n].text = n
        /\ \A t \in TypedTables :
               \A r \in {x \in RowsOf(p, t) \cup Range(pending[p]) : x.cls = t} :
                   /\ r.label \in 1..Len(store[TypeTableOf(t)])
                   /\ store[TypeTableOf(t)][r.label].project = project[p]
                   /\ \E l \in LabelsOfBatch(p, ClassOfTable(t)) :
                          /\ l.uuid = r.uuid
                          /\ store[TypeTableOf(t)][r.label].text = l.name

\* Two batches of two projects with a label of the same name have been
\* committed, each label with the LabelType row of its own project.
C17_Witness ==
    /\ project[1] # project[2]
    /\ \A p \in Procs : pc[p] = "done"
    /\ \E t \in TypedTables :
          /\ Len(store[TypeTableOf(t)]) = 2
          /\ store[TypeTableOf(t)][1].text = store[TypeTableOf(t)][2].text
          /\ \E r1 \in RowsOf(1, t), r2 \in RowsOf(2, t) : r1.label # r2.label

(***************************************************************************)
(* C18.  Records are a read-only staging input of the commit: once         *)
(* cleaning is over, no step of create() of any variant changes the list   *)
(* of Records of the batch or the label list, data, meta or line number of *)
(* a Record; and in the relation variant the Span labels that select_label *)
(* returns after the Span insert carry, in the same order, the uuids of    *)
(* the labels the durable Spans were built of and stored with.             *)
(***************************************************************************)
UuidsOf(rows) == [k \in 1..Len(rows) |-> rows[k].uuid]

SelectedAreInserted(p) ==
    (kind[p] = "Relation" /\ SpansInserted(p)) =>
        /\ UuidsOf(original_spans(records[p])) = uuids[p]
        /\ UuidsOf(original_spans(records[p])) = UuidsOf(RowSeqOf(p, "Span"))
        /\ Range(original_spans(records[p])) = LabelsOfBatch(p, "SpanLabel")

C18_RecordsReadOnly ==
    [][\A p \in Procs :
          /\ pc[p] # "clean" => records'[p] = records[p]
          /\ SelectedAreInserted(p)']_vars

\* A relation batch of two Records with a Span label each has been committed:
\* the Spans were inserted, selected again and read back.
C18_Witness ==
    /\ kind[1] = "Relation"
    /\ pc[1] = "done"
    /\ Len(records[1]) = 2
    /\ \A i \in 1..2 : LabelsOfRecord(1, i, "SpanLabel") # {}
    /\ Len(uuids[1]) = 2
    /\ Len(store["Span"]) = 2

=============================================================================
